---- MODULE Spec2Model ----
(***************************************************************************)
(* Quantum inspired simulated annealing for the synthetic travelling       *)
(* salesman instance of tsp_quantum_annealing.py.                          *)
(*                                                                         *)
(* A route is a sequence over 0..n-1; Python index i is TLA+ index i+1.    *)
(* Distances and errors are multiples of 0.5 in the source and are held    *)
(* here as integers counting halves (PerUnit halves make 1.0).             *)
(* Temperatures are held as integers counting millionths (TempPerUnit).    *)
(* Draws of rnd.random() are held as tenths (PctPerUnit), in [0, 1).       *)
(***************************************************************************)
EXTENDS Integers, Sequences, FiniteSets

VARIABLES
    n_cities, max_iter, start_temperature, alpha, pct_tunnel, \* the arguments of solve_qa
    curr_temperature, soln, err, iteration, interval,         \* its locals
    best_soln, best_err, adj_route, adj_err,
    pc,            \* where the run of solve_qa stands
    result,        \* the route solve_qa returned
    printed,       \* the last progress line printed
    pre_soln,      \* history: soln when the running iteration began
    min_seen,      \* history: least error among the first route and all candidates
    p1, p2, ret    \* arguments and result of a direct call of a pure function

vars == <<n_cities, max_iter, start_temperature, alpha, pct_tunnel,
          curr_temperature, soln, err, iteration, interval,
          best_soln, best_err, adj_route, adj_err,
          pc, result, printed, pre_soln, min_seen, p1, p2, ret>>

solver_vars == <<n_cities, max_iter, start_temperature, alpha, pct_tunnel,
                 curr_temperature, soln, err, iteration, interval,
                 best_soln, best_err, adj_route, adj_err,
                 pc, result, printed, pre_soln, min_seen>>

----------------------------------------------------------------------------
(* Bounds of the model and the scales of its numbers. *)

MaxCities == 3      \* solve_qa runs with n_cities in 2..MaxCities
MaxLen == 4         \* the pure functions are called on routes of 2..MaxLen cities
SmallIter == 2      \* a max_iter below 10
LargeIter == 20     \* a max_iter of at least 20: a progress line every 2 iterations

PerUnit == 2            \* halves in 1.0
TempPerUnit == 1000000  \* millionths in 1.0
PctPerUnit == 10        \* tenths in 1.0

MinTemperature == TempPerUnit \div 100000          \* 0.00001
StartTemperatures == {MinTemperature, 100 * MinTemperature}
Alphas == {<<1, 10>>}                              \* alpha = 0.1, as <<num, den>>
PctTunnels == {1}                                  \* 0.10, as in main
MaxIters == {SmallIter, LargeIter}

Unassigned == <<>>     \* a local that has not been bound yet
NoLine == [iteration |-> -1]

----------------------------------------------------------------------------
(* Routes. *)

Perms(n) == {r \in [1..n -> 0..(n-1)] : \A i, j \in 1..n : i # j => r[i] # r[j]}

Identity(n) == [i \in 1..n |-> i - 1]

Reverse(r) == [i \in 1..Len(r) |-> r[Len(r) + 1 - i]]

IsPermutation(r, n) ==
    /\ Len(r) = n
    /\ \A i \in 1..n : r[i] \in 0..(n-1)
    /\ \A i, j \in 1..n : i # j => r[i] # r[j]

----------------------------------------------------------------------------
(* total_dist and error, in halves. *)

step_dist_swapped(a, b) ==
    IF a < b THEN ((b - a) * 3 * PerUnit) \div 2 ELSE (a - b) * PerUnit

step_dist(a, b) ==
    IF a < b THEN (b - a) * PerUnit ELSE ((a - b) * 3 * PerUnit) \div 2

RECURSIVE dist_upto(_, _)
dist_upto(route, k) ==
    IF k = 0 THEN 0
    ELSE dist_upto(route, k - 1) + step_dist(route[k], route[k + 1])

total_dist(route) == dist_upto(route, Len(route) - 1)

error(route) == total_dist(route) - (Len(route) - 1) * PerUnit

----------------------------------------------------------------------------
(* adjacent: a copy of route after n_swaps swaps of two indices drawn by   *)
(* rnd.randint(n), each in 0..n-1 and possibly equal.  The operator is the *)
(* set of the results over all the draws.                                  *)

swap_no_tmp(res, i, j) == [res EXCEPT ![i + 1] = res[j + 1]]

swap(res, i, j) == [res EXCEPT ![i + 1] = res[j + 1], ![j + 1] = res[i + 1]]

RECURSIVE adjacent(_, _)
adjacent(route, n_swaps) ==
    IF n_swaps = 0 THEN {route}
    ELSE LET n == Len(route)
         IN  UNION { {swap(res, i, j) : i \in 0..(n-1), j \in 0..(n-1)} :
                     res \in adjacent(route, n_swaps - 1) }

----------------------------------------------------------------------------
(* my_kendall_tau_dist: the raw count d and the normer n(n-1)/2; the       *)
(* normalized distance nd is d / normer.                                   *)

None == -1

SetMax(S) == CHOOSE x \in S : \A y \in S : y <= x

index_of(q) ==
    LET n == Len(q)
    IN  [v \in 0..(n-1) |->
            LET hits == {i \in 0..(n-1) : q[i + 1] = v}
            IN  IF hits = {} THEN None ELSE SetMax(hits)]

my_kendall_tau_dist_concordant(a, b) ==
    LET n == Len(a)
        io == index_of(b)
    IN  [d |-> Cardinality({ij \in (0..(n-1)) \X (0..(n-1)) :
                               /\ ij[1] < ij[2]
                               /\ io[a[ij[1] + 1]] < io[a[ij[2] + 1]]}),
         normer |-> (n * (n - 1)) \div 2]

my_kendall_tau_dist(a, b) ==
    LET n == Len(a)
        io == index_of(b)
    IN  [d |-> Cardinality({ij \in (0..(n-1)) \X (0..(n-1)) :
                               /\ ij[1] < ij[2]
                               /\ io[a[ij[1] + 1]] > io[a[ij[2] + 1]]}),
         normer |-> (n * (n - 1)) \div 2]

----------------------------------------------------------------------------
(* np.exp((err - adj_err) / curr_temperature), by the class of its value.  *)
(* The argument is x = (e - a) / t; the double result is above 1 for       *)
(* x > 0, exactly 1 for x = 0, in (0, 1) for -ExpUnderflow <= x < 0,       *)
(* exactly 0.0 for x <= -(ExpUnderflow + 1), and either of the last two    *)
(* in between.  The operator is the set of the classes possible.  (For     *)
(* |x| below 2^-54 the double result rounds to 1; the temperatures of this *)
(* model are far too low for that.)                                        *)

ExpUnderflow == 745

exp_ratio(e, a, t) ==
    LET num == (a - e) * TempPerUnit     \* -x = num / den
        den == PerUnit * t
    IN  IF e > a THEN {"above"}
        ELSE IF e = a THEN {"one"}
        ELSE IF num <= ExpUnderflow * den THEN {"between"}
        ELSE IF num >= (ExpUnderflow + 1) * den THEN {"zero"}
        ELSE {"between", "zero"}

accept_p_inverted(e, a, t) == exp_ratio(a, e, t)

accept_p(e, a, t) == exp_ratio(e, a, t)

(* p < accept_p for a draw p of rnd.random() in [0, 1): the outcomes. *)
draw_below(cls) ==
    CASE cls = "above"   -> {TRUE}
      [] cls = "one"     -> {TRUE}
      [] cls = "between" -> {TRUE, FALSE}
      [] cls = "zero"    -> {FALSE}

----------------------------------------------------------------------------
(* solve_qa. *)

Min(a, b) == IF a < b THEN a ELSE b

NoCall == [fn |-> "none"]

(* Lines 51-63: the state when the loop is first tested. *)
Init ==
    /\ n_cities \in 2..MaxCities
    /\ max_iter \in MaxIters
    /\ start_temperature \in StartTemperatures
    /\ alpha \in Alphas
    /\ pct_tunnel \in PctTunnels
    /\ curr_temperature = start_temperature
    /\ soln \in Perms(n_cities)                \* np.arange, rnd.shuffle
    /\ err = error(soln)
    /\ iteration = 0
    /\ interval = max_iter \div 10
    /\ best_soln = soln
    /\ best_err = err
    /\ adj_route = Unassigned
    /\ adj_err = None
    /\ pc = "loop"
    /\ result = Unassigned
    /\ printed = NoLine
    /\ pre_soln = soln
    /\ min_seen = err
    /\ p1 = Unassigned
    /\ p2 = Unassigned
    /\ ret = NoCall

loop_test == iteration < max_iter /\ err > 0

(* Lines 67-74: the number of swaps for a draw p of rnd.random(). *)
num_swaps_for(p) ==
    IF p < pct_tunnel
    THEN LET k == ((max_iter - iteration) * n_cities) \div max_iter
         IN  IF k < 1 THEN 1 ELSE k
    ELSE 1

(* Lines 67-76: the candidates over all the draws of the iteration. *)
candidates ==
    UNION {adjacent(soln, k) : k \in {num_swaps_for(p) : p \in 0..(PctPerUnit - 1)}}

(* Lines 79-81: the best route and error after a candidate. *)
track_best_always(bs, be, ar, ae) == <<ar, ae>>

track_best(bs, be, ar, ae) == IF ae < be THEN <<ar, ae>> ELSE <<bs, be>>

(* Lines 65-81: the loop test passes; draw, perturb, evaluate, track. *)
Propose ==
    /\ pc = "loop"
    /\ loop_test
    /\ \E r \in candidates :
          LET b == track_best(best_soln, best_err, r, error(r))
          IN  /\ adj_route' = r
              /\ adj_err' = error(r)
              /\ best_soln' = b[1]
              /\ best_err' = b[2]
              /\ min_seen' = Min(min_seen, error(r))
    /\ pre_soln' = soln
    /\ pc' = "accept"
    /\ UNCHANGED <<n_cities, max_iter, start_temperature, alpha, pct_tunnel,
                   curr_temperature, soln, err, iteration, interval,
                   result, printed, p1, p2, ret>>

(* Lines 83-85: a better route is accepted. *)
AcceptBetter ==
    /\ pc = "accept"
    /\ adj_err < err
    /\ soln' = adj_route
    /\ err' = adj_err
    /\ pc' = "report"
    /\ UNCHANGED <<n_cities, max_iter, start_temperature, alpha, pct_tunnel,
                   curr_temperature, iteration, interval, best_soln, best_err,
                   adj_route, adj_err, result, printed, pre_soln, min_seen,
                   p1, p2, ret>>

(* Lines 86-92: a route that is not better is accepted with probability accept_p. *)
Metropolis ==
    /\ pc = "accept"
    /\ ~(adj_err < err)
    /\ \E cls \in accept_p(err, adj_err, curr_temperature) :
       \E below \in draw_below(cls) :
          IF below
          THEN soln' = adj_route /\ err' = adj_err
          ELSE UNCHANGED <<soln, err>>
    /\ pc' = "report"
    /\ UNCHANGED <<n_cities, max_iter, start_temperature, alpha, pct_tunnel,
                   curr_temperature, iteration, interval, best_soln, best_err,
                   adj_route, adj_err, result, printed, pre_soln, min_seen,
                   p1, p2, ret>>

(* Lines 94-101: iteration % interval raises ZeroDivisionError when         *)
(* interval = 0; otherwise a progress line is printed every interval        *)
(* iterations.                                                              *)
Report ==
    /\ pc = "report"
    /\ IF interval = 0
       THEN /\ pc' = "raised"
            /\ UNCHANGED printed
       ELSE /\ pc' = "cool"
            /\ IF iteration % interval = 0
               THEN LET k == my_kendall_tau_dist(soln, adj_route)
                    IN  printed' = [iteration |-> iteration,
                                    dist |-> k.d, normer |-> k.normer,
                                    curr_temp |-> curr_temperature,
                                    error |-> best_err]
               ELSE UNCHANGED printed
    /\ UNCHANGED <<n_cities, max_iter, start_temperature, alpha, pct_tunnel,
                   curr_temperature, soln, err, iteration, interval,
                   best_soln, best_err, adj_route, adj_err, result,
                   pre_soln, min_seen, p1, p2, ret>>

(* Lines 103-108: cooling and the iteration count.  The test comes before  *)
(* the multiplication and is not repeated after it.  The product is exact   *)
(* in millionths for the temperatures and the alpha of this model.          *)
Cool ==
    /\ pc = "cool"
    /\ curr_temperature' =
          IF curr_temperature < MinTemperature
          THEN MinTemperature
          ELSE (curr_temperature * alpha[1]) \div alpha[2]
    /\ iteration' = iteration + 1
    /\ pc' = "loop"
    /\ UNCHANGED <<n_cities, max_iter, start_temperature, alpha, pct_tunnel,
                   soln, err, interval, best_soln, best_err, adj_route, adj_err,
                   result, printed, pre_soln, min_seen, p1, p2, ret>>

ReturnCurrent ==
    /\ pc = "loop"
    /\ ~loop_test
    /\ result' = soln
    /\ pc' = "returned"
    /\ UNCHANGED <<n_cities, max_iter, start_temperature, alpha, pct_tunnel,
                   curr_temperature, soln, err, iteration, interval,
                   best_soln, best_err, adj_route, adj_err, printed,
                   pre_soln, min_seen, p1, p2, ret>>

(* Line 109: the loop test fails and best_soln is returned. *)
Return ==
    /\ pc = "loop"
    /\ ~loop_test
    /\ result' = best_soln
    /\ pc' = "returned"
    /\ UNCHANGED <<n_cities, max_iter, start_temperature, alpha, pct_tunnel,
                   curr_temperature, soln, err, iteration, interval,
                   best_soln, best_err, adj_route, adj_err, printed,
                   pre_soln, min_seen, p1, p2, ret>>

Next == Propose \/ AcceptBetter \/ Metropolis \/ Report \/ Cool \/ Return

Spec == Init /\ [][Next]_vars

----------------------------------------------------------------------------
(* Direct calls of the pure functions error and my_kendall_tau_dist on     *)
(* every pair of routes of 2..MaxLen cities; no run of solve_qa is active. *)

FnInit ==
    /\ \E n \in 2..MaxLen : p1 \in Perms(n) /\ p2 \in Perms(n)
    /\ ret = NoCall
    /\ pc = "idle"
    /\ n_cities = 0
    /\ max_iter = 0
    /\ start_temperature = 0
    /\ alpha = <<0, 1>>
    /\ pct_tunnel = 0
    /\ curr_temperature = 0
    /\ soln = Unassigned
    /\ err = None
    /\ iteration = 0
    /\ interval = 0
    /\ best_soln = Unassigned
    /\ best_err = None
    /\ adj_route = Unassigned
    /\ adj_err = None
    /\ result = Unassigned
    /\ printed = NoLine
    /\ pre_soln = Unassigned
    /\ min_seen = None

CallError ==
    /\ pc = "idle"
    /\ ret' = [fn |-> "error", d |-> total_dist(p1), e |-> error(p1)]
    /\ UNCHANGED <<p1, p2>>
    /\ UNCHANGED solver_vars

CallKendall ==
    /\ pc = "idle"
    /\ LET k == my_kendall_tau_dist(p1, p2)
       IN  ret' = [fn |-> "kendall", d |-> k.d, normer |-> k.normer]
    /\ UNCHANGED <<p1, p2>>
    /\ UNCHANGED solver_vars

FnNext == CallError \/ CallKendall

SpecFn == FnInit /\ [][FnNext]_vars

----------------------------------------------------------------------------
(* Properties. *)

(* C1: curr_temperature is at least 0.00001 in every state of the loop. *)
TemperatureFloor == curr_temperature >= MinTemperature

(* C2: solve_qa never reaches an error state, also when max_iter < 10 makes
   the reporting interval 0. *)
NeverRaises == pc # "raised"

(* C3: soln, adj_route (once a candidate exists) and best_soln are each a
   permutation of 0..n_cities-1 in every state of solve_qa. *)
PermutationInvariant ==
    /\ IsPermutation(soln, n_cities)
    /\ IsPermutation(best_soln, n_cities)
    /\ adj_route # Unassigned => IsPermutation(adj_route, n_cities)

(* C3 witness: a candidate that differs from the route it was made from has
   been accepted while the best route is another one. *)
PermutationWitness ==
    /\ pc = "report"
    /\ adj_route # pre_soln
    /\ soln = adj_route
    /\ best_soln # soln

(* C4: best_err never grows from one state of the run to the next. *)
BestErrNonIncreasing == [][best_err' <= best_err]_vars

(* C4 witness: a worse candidate became the current route and the best
   error recorded before it stayed. *)
BestErrWitness ==
    /\ pc = "loop"
    /\ iteration > 0
    /\ err > best_err
    /\ soln = adj_route

(* C5: the run ends with current error 0 or with iteration = max_iter, and
   never runs more than max_iter iterations. *)
RunEndsOptimalOrMaxIter ==
    /\ iteration <= max_iter
    /\ pc \in {"returned", "raised"} => (err = 0 \/ iteration = max_iter)

(* C6: error(t) >= 0 for every permutation t, and error(t) = 0 exactly for
   the ascending route; [2,0,3,1] costs 9 with error 6, [0,1,2,3] costs 3
   with error 0. *)
ErrorNonNegative ==
    ret.fn = "error" =>
        /\ ret.e >= 0
        /\ ret.e = 0 <=> p1 = Identity(Len(p1))
        /\ p1 = <<2, 0, 3, 1>> => (ret.d = 9 * PerUnit /\ ret.e = 6 * PerUnit)
        /\ p1 = <<0, 1, 2, 3>> => (ret.d = 3 * PerUnit /\ ret.e = 0)

(* C6 witness: error has been called on [2,0,3,1]. *)
ErrorWitness == ret.fn = "error" /\ p1 = <<2, 0, 3, 1>>

PosIn(q, v) == CHOOSE k \in 1..Len(q) : q[k] = v

Inversions(a, b) ==
    Cardinality({ij \in (1..Len(a)) \X (1..Len(a)) :
                    /\ ij[1] < ij[2]
                    /\ PosIn(b, a[ij[1]]) > PosIn(b, a[ij[2]])})

(* C7: the raw Kendall tau distance is the number of pairs ordered one way
   in p1 and the other way in p2; it lies in 0..n(n-1)/2, is 0 exactly when
   p1 = p2, and is n(n-1)/2 (normalized 1.0) when p2 is p1 reversed;
   ([0,1,2,3],[3,2,1,0]) gives 6. *)
KendallTauBounds ==
    ret.fn = "kendall" =>
        LET n == Len(p1)
        IN  /\ ret.d = Inversions(p1, p2)
            /\ 0 <= ret.d /\ ret.d <= (n * (n - 1)) \div 2
            /\ ret.d = 0 <=> p1 = p2
            /\ p2 = Reverse(p1) => (ret.d = (n * (n - 1)) \div 2 /\ ret.d = ret.normer)
            /\ (p1 = <<0, 1, 2, 3>> /\ p2 = <<3, 2, 1, 0>>) => ret.d = 6

(* C7 witness: the distance of [0,1,2,3] and [3,2,1,0] has been computed. *)
KendallWitness ==
    ret.fn = "kendall" /\ p1 = <<0, 1, 2, 3>> /\ p2 = <<3, 2, 1, 0>>

in_metropolis == pc = "accept" /\ ~(adj_err < err)

ReportedDistIsPerturbation ==
    (pc = "cool" /\ printed.iteration = iteration) =>
        printed.dist = my_kendall_tau_dist(pre_soln, adj_route).d

(* C10: best_err = error(best_soln), err = error(soln), best_err <= err,
   best_err is the least error among the first route and all candidates;
   the route returned has that error, and is 0,1,...,n_cities-1 when the
   loop ended on current error 0. *)
BestIsMinimum ==
    /\ best_err = error(best_soln)
    /\ err = error(soln)
    /\ best_err <= err
    /\ best_err = min_seen
    /\ pc = "returned" =>
          /\ result = best_soln
          /\ error(result) = min_seen
          /\ err = 0 => result = Identity(n_cities)

(* C10 witness: the loop ended on current error 0 after some iterations
   and a route was returned. *)
BestIsMinimumWitness ==
    /\ pc = "returned"
    /\ err = 0
    /\ iteration > 0
    /\ iteration < max_iter

====
